---- MODULE Spec2Model ----
(***************************************************************************)
(* ZeroMonitor polling agent: the Supervisor's worker map and reconcile,   *)
(* the run_node worker loop with its drift-corrected schedule, the shared  *)
(* metrics queue, the configuration watcher and the metrics consumer       *)
(* (src/polling_agent.py); the Driver with its control-event handlers and  *)
(* dispatch loop (src/driver.py), the event loop (src/event_bus.py) and    *)
(* the retrying connection of the polling agent.                           *)
(***************************************************************************)
EXTENDS Integers, Sequences, FiniteSets, TLC

\* ------------------------------------------------------------------ bounds
MaxDesired == 2        \* longest desired list handed to reconcile
MaxLaunch == 3         \* run_node submissions over a whole run
MaxInterval == 2       \* largest polling_frequency in a configuration
MaxQueue == 1          \* events put on the queue over a whole run
MaxTimeSched == 5      \* last value of the clock when the schedule is followed
MaxQueueSched == 5     \* events put on the queue when the schedule is followed
MaxLaunchDriver == 2   \* run_node submissions, and events, while the driver is followed
MaxPool == 1           \* threads of the worker pool when the pool is the bottleneck
MaxIntents == 2        \* control events published over a whole run
MaxEntries == 2        \* entries of a device_list.json written by hand
MaxEdits == 2          \* times device_list.json is rewritten under the watcher
MaxRetries == 5        \* largest maxRetries a connection is made with
MaxEvents == 3         \* events put on the queue under the consumer
MaxPublished == 3      \* events published on a bus under test
MaxHandlers == 2       \* subscriptions to one event type

PoolCap == 50          \* worker_executor = ThreadPoolExecutor(max_workers=50)
BackoffCap == 10       \* longest backoff wait of a connection, in seconds

Names == {"a", "b"}
\* the event types of a bus under test, and the handlers subscribed to them
EventTypes == {"A", "B"}
HandlerIds == {"f", "g"}
Intervals == 1..MaxInterval
Handles == 1..MaxLaunch

\* A Node as load_targets builds it: stop_event is still None (0).
NodeOf(name, interval) == [name |-> name, interval |-> interval]
DesiredNodes == {NodeOf(n, i) : n \in Names, i \in Intervals}
DesiredLists == UNION {[1..k -> DesiredNodes] : k \in 0..MaxDesired}
\* configurations of the single node "a"
SchedLists == {<<>>} \cup {<<NodeOf("a", i)>> : i \in Intervals}

\* value of the history of calls before the first call
NoCall == [n \in {"?"} |-> NodeOf("?", 0)]

VARIABLES
    workers,      \* Supervisor.workers: name -> Node with its stop_event
    launched,     \* run_node submissions in order; index = the stop_event made for it
    is_set,       \* the stop_events that have been set
    pc,           \* position of every submitted run_node call
    next_run,     \* run_node's next_run
    result,       \* outcome of the collect() in flight
    queue,        \* Supervisor.queue
    now,          \* time.monotonic()
    start_time,   \* history: value of next_run at line 228
    cycles,       \* history: completed cycles of the loop
    collect_at,   \* history: clock when the collect() in flight began
    all_fast,     \* history: every collect() so far took less than the interval
    on_time,      \* history: every cycle so far reached line 274 by its next scheduled time
    desired,      \* history: new_map of the latest reconcile call
    again,        \* history: the latest reconcile call repeated the one before it
    conn,         \* the connection inside node.provider of every submitted run_node call
    session,      \* whether that connection has a session open
    in_flight,    \* history: calls whose collect() is over and whose put is not, in order
    running,      \* Driver.running
    agent,        \* the polling agent's pool: "up", "draining" or "down"
    drain_expired,\* shutdown gave up waiting before the pool had drained
    stop_pc,      \* position of Driver.stop_system
    dispatch,     \* position of Driver._dispatch_metrics
    held,         \* the event _dispatch_metrics has taken and not yet published
    bus_running,  \* EventBus.running
    bus_queue,    \* EventBus.queue
    loop,         \* position of EventBus._event_loop
    intents,      \* history: control events published so far
    device_list,  \* device_list.json: the entries in the order of the document
    handling,     \* the handler that has rewritten device_list.json and not yet reloaded
    mtime,        \* os.path.getmtime("device_list.json")
    last_mtime,   \* watch_config's last_mtime
    run_pc,       \* position of a PersistentConnection.run call
    max_retries,  \* the connection's maxRetries
    attempt,      \* number of the attempt under way, or of the last one made
    waited,       \* seconds of the backoff wait under way that have passed
    waits,        \* history: the backoff waits of the call that ran to their end
    underlying,   \* the connection's underlyingSession: "open" or "none"
    cancel,       \* the cancelSignal handed to run has fired
    cache,        \* the {node}_cache.json files: node -> stored snapshot
    consumed,     \* history: the events metrics_consumer has taken, in order
    given,        \* history: the list handed to the latest reconcile call
    reload_failed,\* history: the watcher's latest reload raised
    subscribers,  \* EventBus.subscribers: event type -> handlers in subscription order
    bus_state,    \* history: "new", then "started", "stopping" inside stop(), "stopped"
    current,      \* the event _event_loop is delivering and the place of its next handler
    published,    \* history: the events handed to publish, in order
    delivered     \* history: the handler calls made, in order

vars == <<workers, launched, is_set, pc, next_run, result, queue, now,
          start_time, cycles, collect_at, all_fast, on_time, desired, again,
          conn, session, in_flight,
          running, agent, drain_expired, stop_pc, dispatch, held, bus_running, bus_queue,
          loop, intents, device_list, handling, mtime, last_mtime,
          run_pc, max_retries, attempt, waited, waits, underlying, cancel,
          cache, consumed, given, reload_failed,
          subscribers, bus_state, current, published, delivered>>

workerVars == <<pc, next_run, result, start_time, cycles, collect_at, all_fast, on_time>>

connVars == <<conn, session, in_flight>>

driverVars == <<running, agent, drain_expired, stop_pc, dispatch, held, bus_running, bus_queue>>

threadVars == <<loop, intents>>

\* the state outside the workers and outside the Driver's stop and dispatch paths
configVars == <<device_list, handling>>

watchVars == <<mtime, last_mtime, reload_failed>>

retryVars == <<run_pc, max_retries, attempt, waited, waits, underlying, cancel>>

cacheVars == <<cache, consumed>>

callVars == <<given>>

busVars == <<subscribers, bus_state, current, published, delivered>>

outerVars == <<threadVars, configVars, watchVars, retryVars, cacheVars, callVars, busVars>>

\* --------------------------------------------------------------- reconcile
Range(s) == {s[i] : i \in DOMAIN s}

\* all orders in which a loop may walk a Python set
Orders(S) == {s \in [1..Cardinality(S) -> S] : Range(s) = S}

IndexOf(s, x) == CHOOSE i \in DOMAIN s : s[i] = x

\* new_map = {n.name: n for n in new_nodes}: a later entry replaces an earlier one
\* faulty variant: of two entries with one name the first is kept
new_map_FirstWins(new_nodes) ==
    [n \in {new_nodes[i].name : i \in DOMAIN new_nodes} |->
        new_nodes[CHOOSE i \in DOMAIN new_nodes :
                     /\ new_nodes[i].name = n
                     /\ \A j \in DOMAIN new_nodes : j < i => new_nodes[j].name # n]]

new_map(new_nodes) ==
    [n \in {new_nodes[i].name : i \in DOMAIN new_nodes} |->
        new_nodes[CHOOSE i \in DOMAIN new_nodes :
                     /\ new_nodes[i].name = n
                     /\ \A j \in DOMAIN new_nodes : j > i => new_nodes[j].name # n]]

\* faulty variant: every desired name is started, running or not
ToStart_All(new_names, current_names) == new_names

ToStart(new_names, current_names) == new_names \ current_names

\* faulty variant: no running name is ever dropped
ToStop_None(new_names, current_names) == {}

ToStop(new_names, current_names) == current_names \ new_names

ToCheck(new_names, current_names) == new_names \cap current_names

\* faulty variant: every name found in both is reloaded
NeedsReload_Always(new_node, old_node) == TRUE

NeedsReload(new_node, old_node) == new_node.interval # old_node.interval

\* faulty variant: a reload leaves the old handle unset
Signalled_StopOnly(stop, reload) == {workers[n].stop_event : n \in stop}

\* the handles a call signals: removed names, and reloaded names' old handles
Signalled(stop, reload) == {workers[n].stop_event : n \in stop \cup reload}

\* faulty variant: a reload writes the new interval into the entry of the
\* running worker and leaves it its stop_event
MapAfter_InPlace(nm, start, stop, reload, event) ==
    [n \in (DOMAIN workers \cup start) \ stop |->
        IF n \in start
        THEN [name |-> n, interval |-> nm[n].interval, stop_event |-> event[n]]
        ELSE IF n \in reload
             THEN [workers[n] EXCEPT !.interval = nm[n].interval]
             ELSE workers[n]]

\* faulty variant: a reload leaves the old entry in the map
MapAfter_NoReplace(nm, start, stop, reload, event) ==
    [n \in (DOMAIN workers \cup start) \ stop |->
        IF n \in start
        THEN [name |-> n, interval |-> nm[n].interval, stop_event |-> event[n]]
        ELSE workers[n]]

\* the map after the three loops: entries added (348), popped (354), replaced (375);
\* event[n] is the stop_event made for n by this call
MapAfter(nm, start, stop, reload, event) ==
    [n \in (DOMAIN workers \cup start) \ stop |->
        IF n \in start \cup reload
        THEN [name |-> n, interval |-> nm[n].interval, stop_event |-> event[n]]
        ELSE workers[n]]

\* faulty variant: connections are kept per host and handed out again on a reload
Connection_PerHost(name, earlier) == <<name, 0>>

\* conn = Connection(host=host, user=user) (line 201): load_targets makes a connection
\* of its own for every entry of every load, and new_map keeps one entry per name.
\* A connection that reaches a worker is named by its entry's name and by the
\* number of workers submitted for that name before its load: another load that
\* submits the name counts more of them, another entry of the load has another name.
Connection(name, earlier) == <<name, earlier + 1>>

reconcile(new_nodes, cap) ==
    LET nm == new_map(new_nodes)
        current_names == DOMAIN workers
        new_names == DOMAIN nm
        start == ToStart(new_names, current_names)
        stop == ToStop(new_names, current_names)
        reload == {n \in ToCheck(new_names, current_names) : NeedsReload(nm[n], workers[n])}
        base == Len(launched)
    IN  \E o1 \in Orders(start), o2 \in Orders(reload) :
          LET subs == o1 \o o2
              event == [n \in Range(subs) |-> base + IndexOf(subs, n)]
              fresh == (base + 1)..(base + Len(subs))
          IN  /\ base + Len(subs) <= cap
              /\ launched' = launched \o [i \in 1..Len(subs) |-> nm[subs[i]]]
              /\ is_set' = is_set \cup Signalled(stop, reload)
              /\ workers' = MapAfter(nm, start, stop, reload, event)
              /\ pc' = [h \in Handles |-> IF h \in fresh THEN "queued" ELSE pc[h]]
              /\ desired' = nm
              /\ again' = (nm = desired)
              /\ UNCHANGED <<next_run, result, queue, now, start_time, cycles,
                             collect_at, all_fast, on_time>>
              /\ conn' = [h \in Handles |->
                            IF h \in fresh
                            THEN Connection(subs[h - base],
                                            Cardinality({g \in 1..base :
                                                launched[g].name = subs[h - base]}))
                            ELSE conn[h]]
              /\ UNCHANGED <<session, in_flight>>

Reconcile ==
    /\ \E new_nodes \in DesiredLists : reconcile(new_nodes, MaxLaunch)
    /\ UNCHANGED driverVars
    /\ UNCHANGED outerVars

\* a reconcile call whose argument is kept for inspection
ReconcileGiven ==
    /\ \E new_nodes \in DesiredLists :
          /\ reconcile(new_nodes, MaxLaunch)
          /\ given' = new_nodes
    /\ UNCHANGED <<driverVars, threadVars, configVars, watchVars, retryVars,
                   cacheVars, busVars>>

\* one configuration is loaded, and later emptied
ReconcileSched ==
    \E new_nodes \in SchedLists :
        /\ launched = <<>> \/ new_nodes = <<>>
        /\ reconcile(new_nodes, MaxLaunch)
        /\ UNCHANGED driverVars
        /\ UNCHANGED outerVars

\* ---------------------------------------------------------------- run_node
Executing(h) == pc[h] \notin {"none", "queued", "done"}

\* faulty variant: a thread per submission, whatever the number already running
MayStart_Unbounded(h, max_workers) == TRUE

\* ThreadPoolExecutor(max_workers): at most max_workers calls run at a time, and a
\* free thread takes the queued calls in submission order
MayStart(h, max_workers) ==
    Cardinality({g \in Handles : Executing(g)})
      + Cardinality({g \in Handles : g < h /\ pc[g] = "queued"}) < max_workers

\* lines 224-228: next_run = time.monotonic()
Start(h, max_workers) ==
    /\ pc[h] = "queued"
    /\ MayStart(h, max_workers)
    /\ pc' = [pc EXCEPT ![h] = "check"]
    /\ next_run' = [next_run EXCEPT ![h] = now]
    /\ start_time' = [start_time EXCEPT ![h] = now]
    /\ UNCHANGED <<workers, launched, is_set, result, queue, now, cycles,
                   collect_at, all_fast, on_time, desired, again>>
    /\ UNCHANGED connVars
    /\ UNCHANGED driverVars
    /\ UNCHANGED outerVars

WaitTime(nr, t) == nr - t

RECURSIVE SumOver(_, _)
SumOver(f, S) ==
    IF S = {} THEN 0
    ELSE LET x == CHOOSE y \in S : TRUE IN f[x] + SumOver(f, S \ {x})

\* cycles of h that are past their collection step
PastCollection(h) == cycles[h] + (IF pc[h] = "sched" THEN 1 ELSE 0)

\* the run has room for the event of one more collection, counting the events put
\* so far and those of the collections under way
Room(cap) ==
    SumOver([g \in Handles |-> PastCollection(g)], Handles)
      + Cardinality({g \in Handles : pc[g] \in {"collect", "emit"}}) < cap

\* faulty variant: the loop does not look at the stop_event before a collection
Check_SkipsStopCheck(h, cap) ==
    /\ pc[h] = "check"
    /\ IF WaitTime(next_run[h], now) > 0
       THEN /\ pc' = [pc EXCEPT ![h] = "wait"]
            /\ UNCHANGED collect_at
       ELSE /\ Room(cap)
            /\ pc' = [pc EXCEPT ![h] = "collect"]
            /\ collect_at' = [collect_at EXCEPT ![h] = now]
    /\ UNCHANGED <<workers, launched, is_set, next_run, result, queue, now,
                   start_time, cycles, all_fast, on_time, desired, again>>
    /\ UNCHANGED connVars
    /\ UNCHANGED driverVars
    /\ UNCHANGED outerVars

\* lines 233-247 up to the wait: the stop check, then wait or go straight to collect
Check(h, cap) ==
    /\ pc[h] = "check"
    /\ IF h \in is_set
       THEN /\ pc' = [pc EXCEPT ![h] = "done"]
            /\ UNCHANGED collect_at
       ELSE IF WaitTime(next_run[h], now) > 0
            THEN /\ pc' = [pc EXCEPT ![h] = "wait"]
                 /\ UNCHANGED collect_at
            ELSE /\ Room(cap)
                 /\ pc' = [pc EXCEPT ![h] = "collect"]
                 /\ collect_at' = [collect_at EXCEPT ![h] = now]
    /\ UNCHANGED <<workers, launched, is_set, next_run, result, queue, now,
                   start_time, cycles, all_fast, on_time, desired, again>>
    /\ UNCHANGED connVars
    /\ UNCHANGED driverVars
    /\ UNCHANGED outerVars

\* faulty variant: the wait is a plain sleep, a set stop_event is seen only afterwards
Wait_SleepsThrough(h, cap) ==
    /\ pc[h] = "wait"
    /\ now >= next_run[h]
    /\ IF h \in is_set
       THEN /\ pc' = [pc EXCEPT ![h] = "done"]
            /\ UNCHANGED collect_at
       ELSE /\ Room(cap)
            /\ pc' = [pc EXCEPT ![h] = "collect"]
            /\ collect_at' = [collect_at EXCEPT ![h] = now]
    /\ UNCHANGED <<workers, launched, is_set, next_run, result, queue, now,
                   start_time, cycles, all_fast, on_time, desired, again>>
    /\ UNCHANGED connVars
    /\ UNCHANGED driverVars
    /\ UNCHANGED outerVars

\* lines 245-247: stop_event.wait(wait_time) returns, set or timed out
Wait(h, cap) ==
    /\ pc[h] = "wait"
    /\ IF h \in is_set
       THEN /\ pc' = [pc EXCEPT ![h] = "done"]
            /\ UNCHANGED collect_at
       ELSE /\ now >= next_run[h]
            /\ Room(cap)
            /\ pc' = [pc EXCEPT ![h] = "collect"]
            /\ collect_at' = [collect_at EXCEPT ![h] = now]
    /\ UNCHANGED <<workers, launched, is_set, next_run, result, queue, now,
                   start_time, cycles, all_fast, on_time, desired, again>>
    /\ UNCHANGED connVars
    /\ UNCHANGED driverVars
    /\ UNCHANGED outerVars

\* self.conn.run(cmd, ...) (line 107) opens the connection's session when there is
\* none; collect() raises when no session could be opened or, with the session
\* open, when the command or the parsing of its output fails
SessionAfter(s, r) == IF r = "ok" THEN {"open"} ELSE {s, "open"}

\* line 251: node.provider.collect() returns or raises
Collect(h) ==
    /\ pc[h] = "collect"
    /\ \E r \in {"ok", "err"} :
          /\ result' = [result EXCEPT ![h] = r]
          /\ \E s \in SessionAfter(session[h], r) : session' = [session EXCEPT ![h] = s]
    /\ in_flight' = Append(in_flight, h)
    /\ pc' = [pc EXCEPT ![h] = "emit"]
    /\ all_fast' = [all_fast EXCEPT
                      ![h] = @ /\ (now - collect_at[h] < launched[h].interval)]
    /\ collect_at' = [collect_at EXCEPT ![h] = 0]
    /\ UNCHANGED <<workers, launched, is_set, next_run, queue, now,
                   start_time, cycles, on_time, desired, again>>
    /\ UNCHANGED conn
    /\ UNCHANGED driverVars
    /\ UNCHANGED outerVars

MetricEvent(node, success, t) ==
    [node |-> node, success |-> success,
     payload |-> IF success THEN "metrics" ELSE "error", timestamp |-> t]

\* faulty variant: a failed collection is swallowed without an event
Emitted_DropsFailure(name, r, t) ==
    IF r = "ok" THEN <<MetricEvent(name, TRUE, t)>> ELSE <<>>

\* what the try/except of lines 250-268 puts on the queue for an outcome
Emitted(name, r, t) ==
    IF r = "ok" THEN <<MetricEvent(name, TRUE, t)>> ELSE <<MetricEvent(name, FALSE, t)>>

\* faulty variant: a failed collection ends the loop
AfterEmit_QuitOnError(r) == IF r = "err" THEN "done" ELSE "sched"

\* where the loop goes after the try/except: on to line 271 for either outcome
AfterEmit(r) == "sched"

\* faulty variant: the queue holds one event and put blocks until it is taken
Emit_BlocksWhenFull(h) ==
    /\ pc[h] = "emit"
    /\ Len(queue) < 1
    /\ queue' = queue \o Emitted(launched[h].name, result[h], now)
    /\ result' = [result EXCEPT ![h] = "none"]
    /\ pc' = [pc EXCEPT ![h] = AfterEmit(result[h])]
    /\ UNCHANGED <<workers, launched, is_set, next_run, now, start_time, cycles,
                   collect_at, all_fast, on_time, desired, again>>
    /\ in_flight' = SelectSeq(in_flight, LAMBDA g : g # h)
    /\ UNCHANGED <<conn, session>>
    /\ UNCHANGED driverVars
    /\ UNCHANGED outerVars

\* lines 253-258 / 263-268: queue.put of the one event of this cycle; the queue is
\* Queue() (line 284), which has no maximum size, so put returns at once
Emit(h) ==
    /\ pc[h] = "emit"
    /\ queue' = queue \o Emitted(launched[h].name, result[h], now)
    /\ result' = [result EXCEPT ![h] = "none"]
    /\ pc' = [pc EXCEPT ![h] = AfterEmit(result[h])]
    /\ UNCHANGED <<workers, launched, is_set, next_run, now, start_time, cycles,
                   collect_at, all_fast, on_time, desired, again>>
    /\ in_flight' = SelectSeq(in_flight, LAMBDA g : g # h)
    /\ UNCHANGED <<conn, session>>
    /\ UNCHANGED driverVars
    /\ UNCHANGED outerVars

\* faulty variant: the next run is re-based off the clock after every cycle
Advance_FromNow(nr, interval) == now + interval

\* line 271
Advance(nr, interval) == nr + interval

\* faulty variant: an overrun is never noticed, missed ticks are caught up
Overran_Never(nr, t) == FALSE

\* line 274
Overran(nr, t) == nr < t

\* lines 270-274: next_run += interval, then the overrun test
Sched(h) ==
    /\ pc[h] = "sched"
    /\ next_run' = [next_run EXCEPT ![h] = Advance(@, launched[h].interval)]
    /\ pc' = [pc EXCEPT ![h] =
                IF Overran(next_run'[h], now) THEN "snap" ELSE "check"]
    /\ cycles' = [cycles EXCEPT ![h] = @ + 1]
    /\ on_time' = [on_time EXCEPT
                     ![h] = @ /\ now <= start_time[h] + (cycles[h] + 1) * launched[h].interval]
    /\ UNCHANGED <<workers, launched, is_set, result, queue, now, start_time,
                   collect_at, all_fast, desired, again>>
    /\ UNCHANGED connVars
    /\ UNCHANGED driverVars
    /\ UNCHANGED outerVars

\* line 275: next_run = time.monotonic()
Snap(h) ==
    /\ pc[h] = "snap"
    /\ next_run' = [next_run EXCEPT ![h] = now]
    /\ pc' = [pc EXCEPT ![h] = "check"]
    /\ UNCHANGED <<workers, launched, is_set, result, queue, now, start_time,
                   cycles, collect_at, all_fast, on_time, desired, again>>
    /\ UNCHANGED connVars
    /\ UNCHANGED driverVars
    /\ UNCHANGED outerVars

\* the monotonic clock advances
Advance_clock(last) ==
    /\ now < last
    /\ now' = now + 1
    /\ UNCHANGED <<workers, launched, is_set, desired, again, queue, workerVars>>
    /\ UNCHANGED connVars
    /\ UNCHANGED driverVars
    /\ UNCHANGED outerVars

TickSched == Advance_clock(MaxTimeSched)

\* ------------------------------------------------------------------ driver
\* launch_nodes(nodes): reconcile against an empty running set
launch_nodes(new_nodes, cap) ==
    /\ workers = <<>>
    /\ reconcile(new_nodes, cap)

\* reconcile on a pool that takes no more submissions: the first submit raises.
\* With a name to start that is line 345, before anything has changed; otherwise
\* the removals of lines 352-357 are done, and the first reload sets the old
\* stop_event (369) before its submit (373) raises; with nothing to submit the
\* call runs to its end.
reconcile_refused(new_nodes) ==
    LET nm == new_map(new_nodes)
        current_names == DOMAIN workers
        new_names == DOMAIN nm
        start == ToStart(new_names, current_names)
        stop == ToStop(new_names, current_names)
        reload == {n \in ToCheck(new_names, current_names) : NeedsReload(nm[n], workers[n])}
    IN  /\ IF start # {}
           THEN UNCHANGED <<workers, is_set>>
           ELSE /\ workers' = [n \in DOMAIN workers \ stop |-> workers[n]]
                /\ IF reload = {}
                   THEN is_set' = is_set \cup Signalled(stop, {})
                   ELSE \E n \in reload : is_set' = is_set \cup Signalled(stop, {n})
        /\ IF start \cup reload = {}
           THEN desired' = nm /\ again' = (nm = desired)
           ELSE UNCHANGED <<desired, again>>
        /\ UNCHANGED <<launched, pc, conn, next_run, result, queue, now,
                       start_time, cycles, collect_at, all_fast, on_time,
                       session, in_flight>>

\* PollingAgent.reconcile: the diff of Supervisor.reconcile on the agent's pool
agent_reconcile(new_nodes, cap) ==
    IF agent = "up" THEN reconcile(new_nodes, cap) ELSE reconcile_refused(new_nodes)

\* Driver.reload_config, run by the handlers of the control events
reload_config ==
    /\ dispatch # "none"
    /\ \E new_nodes \in SchedLists : agent_reconcile(new_nodes, MaxLaunchDriver)
    /\ UNCHANGED driverVars
    /\ UNCHANGED outerVars

\* main.py lines 9-14: bus.start(), then Driver.start
start ==
    /\ dispatch = "none" /\ stop_pc = "idle" /\ ~bus_running
    /\ bus_running' = TRUE
    /\ \E nodes \in SchedLists : launch_nodes(nodes, MaxLaunchDriver)
    /\ running' = TRUE
    /\ dispatch' = "loop"
    /\ UNCHANGED <<agent, drain_expired, stop_pc, held, bus_queue>>
    /\ UNCHANGED outerVars

\* stop_system, line 156: self.running = False
stop_system_flag ==
    /\ stop_pc = "idle" /\ dispatch # "none"
    /\ running' = FALSE
    /\ stop_pc' = "flagged"
    /\ UNCHANGED <<workers, launched, is_set, queue, now, desired, again, workerVars,
                   connVars, agent, drain_expired, dispatch, held, bus_running, bus_queue>>
    /\ UNCHANGED outerVars

\* faulty variant: the pool is shut without a signal to the workers
shutdown_begin_NoSignal ==
    /\ stop_pc = "flagged"
    /\ agent' = "draining"
    /\ stop_pc' = "draining"
    /\ UNCHANGED <<workers, launched, is_set, queue, now, desired, again, workerVars,
                   connVars, running, drain_expired, dispatch, held, bus_running,
                   bus_queue>>
    /\ UNCHANGED outerVars

\* stop_system, line 160, first half: shutdown() sets the stop_event of every
\* worker in the map and closes the pool to submissions
shutdown_begin ==
    /\ stop_pc = "flagged"
    /\ is_set' = is_set \cup {workers[n].stop_event : n \in DOMAIN workers}
    /\ agent' = "draining"
    /\ stop_pc' = "draining"
    /\ UNCHANGED <<workers, launched, queue, now, desired, again, workerVars,
                   connVars, running, drain_expired, dispatch, held, bus_running,
                   bus_queue>>
    /\ UNCHANGED outerVars

Drained == \A h \in Handles : pc[h] \in {"none", "done"}

\* stop_system, line 160, second half: shutdown() returns once the pool has
\* drained, or when its bounded wait runs out first
shutdown_return ==
    /\ stop_pc = "draining"
    /\ \/ Drained /\ UNCHANGED drain_expired
       \/ ~Drained /\ drain_expired' = TRUE
    /\ agent' = "down"
    /\ stop_pc' = "agent_down"
    /\ UNCHANGED <<workers, launched, is_set, queue, now, desired, again, workerVars,
                   connVars, running, dispatch, held, bus_running, bus_queue>>
    /\ UNCHANGED outerVars

\* stop_system, line 164: event_bus.stop() clears running and queues (None, None)
stop_system_bus ==
    /\ stop_pc = "agent_down"
    /\ bus_running' = FALSE
    /\ bus_queue' = Append(bus_queue, <<"None", "None">>)
    /\ stop_pc' = "bus_stopped"
    /\ UNCHANGED <<workers, launched, is_set, queue, now, desired, again, workerVars,
                   connVars, running, agent, drain_expired, dispatch, held>>
    /\ UNCHANGED outerVars

\* stop_system, line 168: control_executor.shutdown(wait=True) returns when
\* _dispatch_metrics has returned
stop_system_join ==
    /\ stop_pc = "bus_stopped"
    /\ dispatch = "exit"
    /\ stop_pc' = "done"
    /\ UNCHANGED <<workers, launched, is_set, queue, now, desired, again, workerVars,
                   connVars, running, agent, drain_expired, dispatch, held, bus_running,
                   bus_queue>>
    /\ UNCHANGED outerVars

\* _dispatch_metrics, line 213: while self.running
dispatch_test ==
    /\ dispatch = "loop"
    /\ dispatch' = IF running THEN "get" ELSE "exit"
    /\ UNCHANGED <<workers, launched, is_set, queue, now, desired, again, workerVars,
                   connVars, running, agent, drain_expired, stop_pc, held, bus_running,
                   bus_queue>>
    /\ UNCHANGED outerVars

\* faulty variant: a get without timeout, which waits on an empty queue
dispatch_get_Blocking ==
    /\ dispatch = "get"
    /\ queue # <<>>
    /\ held' = <<Head(queue)>>
    /\ queue' = Tail(queue)
    /\ dispatch' = "got"
    /\ UNCHANGED <<workers, launched, is_set, now, desired, again, workerVars,
                   connVars, running, agent, drain_expired, stop_pc, bus_running,
                   bus_queue>>
    /\ UNCHANGED outerVars

\* lines 214-217: metrics_queue.get(timeout=1) hands over the oldest event, or
\* raises on an empty queue and the loop goes round
dispatch_get ==
    /\ dispatch = "get"
    /\ IF queue # <<>>
       THEN /\ held' = <<Head(queue)>>
            /\ queue' = Tail(queue)
            /\ dispatch' = "got"
       ELSE /\ dispatch' = "loop"
            /\ UNCHANGED <<held, queue>>
    /\ UNCHANGED <<workers, launched, is_set, now, desired, again, workerVars,
                   connVars, running, agent, drain_expired, stop_pc, bus_running,
                   bus_queue>>
    /\ UNCHANGED outerVars

\* lines 219-222: the event in hand is published, unless running has been cleared
dispatch_publish ==
    /\ dispatch = "got"
    /\ IF running
       THEN /\ bus_queue' = Append(bus_queue, <<"METRIC_EVENT", held[1]>>)
            /\ dispatch' = "loop"
       ELSE /\ dispatch' = "exit"
            /\ UNCHANGED bus_queue
    /\ held' = <<>>
    /\ UNCHANGED <<workers, launched, is_set, queue, now, desired, again, workerVars,
                   connVars, running, agent, drain_expired, stop_pc, bus_running>>
    /\ UNCHANGED outerVars

\* ------------------------------------------------------------ control events
\* the control events of ui_module.py, for the node "a"
Intents ==
    {<<"UPDATE_POLLING_RATE", "a">>, <<"ADD_NODE", "a">>, <<"REMOVE_NODE", "a">>,
     <<"STOP_SYSTEM", "None">>}

\* EventBus.publish of a control event, by the UI that main.py creates after
\* driver.start() has returned
publish ==
    /\ dispatch # "none"
    /\ intents < MaxIntents
    /\ \E ev \in Intents : bus_queue' = Append(bus_queue, ev)
    /\ intents' = intents + 1
    /\ UNCHANGED <<workers, launched, is_set, queue, now, desired, again, workerVars,
                   connVars, running, agent, drain_expired, stop_pc, dispatch, held,
                   bus_running, loop, configVars,
                   watchVars, retryVars, cacheVars, callVars, busVars>>

\* faulty variant: the loop goes back to the queue without a look at running
AfterEvent_NoTest == "get"

\* _event_loop, line 33, reached again after an event: while self.running
AfterEvent == IF bus_running THEN "get" ELSE "exit"

\* _event_loop, lines 35-45: the thread started by bus.start() takes the oldest
\* event and calls the Driver's handler for it, up to the handler's first call
\* into the polling agent: remove_node at driver.py:111 for REMOVE_NODE, the
\* reconcile of reload_config at driver.py:229 for ADD_NODE and
\* UPDATE_POLLING_RATE; stop_system runs line 156. (None, None) ends the loop and
\* METRIC_EVENT has no handler in the Driver. A STOP_SYSTEM taken while
\* stop_system is already being run is a second call, which is not followed.
loop_get ==
    /\ loop = "get"
    /\ bus_queue # <<>>
    /\ bus_queue' = Tail(bus_queue)
    /\ LET event_type == Head(bus_queue)[1]
       IN  CASE event_type = "None" ->
                    loop' = "exit" /\ UNCHANGED <<running, stop_pc>>
             [] event_type = "METRIC_EVENT" ->
                    loop' = AfterEvent /\ UNCHANGED <<running, stop_pc>>
             [] event_type = "REMOVE_NODE" ->
                    loop' = "remove" /\ UNCHANGED <<running, stop_pc>>
             [] event_type \in {"ADD_NODE", "UPDATE_POLLING_RATE"} ->
                    loop' = "reconcile" /\ UNCHANGED <<running, stop_pc>>
             [] event_type = "STOP_SYSTEM" /\ stop_pc = "idle" ->
                    loop' = "stop" /\ running' = FALSE /\ stop_pc' = "flagged"
             [] event_type = "STOP_SYSTEM" /\ stop_pc # "idle" ->
                    loop' = "stop_again" /\ UNCHANGED <<running, stop_pc>>
    /\ UNCHANGED <<workers, launched, is_set, queue, now, desired, again, workerVars,
                   connVars, agent, drain_expired, dispatch, held, bus_running,
                   intents, configVars,
                   watchVars, retryVars, cacheVars, callVars, busVars>>

\* PollingAgent.remove_node(name): the removal branch of reconcile for one name
agent_remove_node(name) ==
    /\ workers' = [n \in DOMAIN workers \ {name} |-> workers[n]]
    /\ is_set' = is_set \cup {workers[n].stop_event : n \in DOMAIN workers \cap {name}}

\* remove_node, lines 110-147: the agent drops the worker, the entry is taken out
\* of device_list.json, and reload_config is entered
loop_remove ==
    /\ loop = "remove"
    /\ agent_remove_node("a")
    /\ loop' = "reconcile"
    /\ UNCHANGED <<launched, queue, now, desired, again, workerVars, connVars,
                   driverVars, intents, configVars,
                   watchVars, retryVars, cacheVars, callVars, busVars>>

\* reload_config on the event loop's thread: polling_agent.reconcile runs and
\* returns, or raises into the except of event_bus.py:47, and the loop goes round
loop_reconcile ==
    /\ loop = "reconcile"
    /\ \E new_nodes \in SchedLists : agent_reconcile(new_nodes, MaxLaunchDriver)
    /\ loop' = AfterEvent
    /\ UNCHANGED <<driverVars, intents, configVars,
                   watchVars, retryVars, cacheVars, callVars, busVars>>

\* the stop_system called by the event loop returns to it
loop_stopped ==
    /\ loop = "stop"
    /\ stop_pc = "done"
    /\ loop' = AfterEvent
    /\ UNCHANGED <<workers, launched, is_set, queue, now, desired, again, workerVars,
                   connVars, driverVars, intents, configVars,
                   watchVars, retryVars, cacheVars, callVars, busVars>>

\* ----------------------------------------------------------- device_list.json
\* "linux" stands for the two supported kinds, "bsd" for any other kind, and
\* "missing" for an entry without the key, whose os_type is None
OsKinds == {"linux", "bsd", "missing"}

ItemOf(name, os, freq) ==
    [name |-> name, operating_system |-> os, polling_frequency |-> freq]
Items == {ItemOf(n, os, f) : n \in Names, os \in OsKinds, f \in Intervals}
DeviceLists == UNION {[1..k -> Items] : k \in 0..MaxEntries}

\* os_type.lower() at line 247 raises on None
Malformed(item) == item.operating_system = "missing"

\* lines 247-258: the kinds that get a provider; any other is skipped
Supported(item) == item.operating_system = "linux"

\* load_targets: the first malformed entry raises out of the whole call; otherwise
\* one Node per supported entry, in the order of the document
load_targets(data) ==
    LET kept == SelectSeq(data, Supported)
    IN  [raised |-> \E i \in DOMAIN data : Malformed(data[i]),
         nodes |-> [i \in 1..Len(kept) |-> NodeOf(kept[i].name, kept[i].polling_frequency)]]

\* device_list.json as it has been written by hand before the program starts
edit ==
    /\ dispatch = "none"
    /\ \E data \in DeviceLists : device_list' = data
    /\ UNCHANGED <<workers, launched, is_set, queue, now, desired, again, workerVars,
                   connVars, driverVars, threadVars, handling,
                   watchVars, retryVars, cacheVars, callVars, busVars>>

\* main.py lines 9-14 with the targets of device_list.json: a load that raises
\* ends the process before anything has started
start_loaded ==
    /\ dispatch = "none" /\ stop_pc = "idle" /\ ~bus_running
    /\ ~load_targets(device_list).raised
    /\ bus_running' = TRUE
    /\ launch_nodes(load_targets(device_list).nodes, MaxLaunchDriver)
    /\ running' = TRUE
    /\ dispatch' = "loop"
    /\ UNCHANGED <<agent, drain_expired, stop_pc, held, bus_queue, threadVars, configVars,
                   watchVars, retryVars, cacheVars, callVars, busVars>>

\* add_node, lines 180-200: an entry of that name makes the handler return;
\* otherwise the entry is stored under a new key and the document is rewritten
add_node(node_config) ==
    /\ dispatch # "none" /\ handling = <<>>
    /\ IF \E i \in DOMAIN device_list : device_list[i].name = node_config.name
       THEN UNCHANGED <<device_list, handling>>
       ELSE /\ device_list' = Append(device_list, node_config)
            /\ handling' = <<"add", node_config.name>>
    /\ UNCHANGED <<workers, launched, is_set, queue, now, desired, again, workerVars,
                   connVars, driverVars, threadVars,
                   watchVars, retryVars, cacheVars, callVars, busVars>>

\* the document without its first entry of that name, if it has one (lines 121-131)
WithoutFirst(data, node_name) ==
    IF \E i \in DOMAIN data : data[i].name = node_name
    THEN LET k == CHOOSE i \in DOMAIN data :
                    /\ data[i].name = node_name
                    /\ \A j \in DOMAIN data : j < i => data[j].name # node_name
         IN  SubSeq(data, 1, k - 1) \o SubSeq(data, k + 1, Len(data))
    ELSE data

\* remove_node, lines 110-147: the agent drops the worker, then the first entry
\* of that name is deleted from the document
remove_node(node_name) ==
    /\ dispatch # "none" /\ handling = <<>>
    /\ agent_remove_node(node_name)
    /\ device_list' = WithoutFirst(device_list, node_name)
    /\ handling' = <<"remove", node_name>>
    /\ UNCHANGED <<launched, queue, now, desired, again, workerVars, connVars,
                   driverVars, threadVars,
                   watchVars, retryVars, cacheVars, callVars, busVars>>

\* update_polling_rate, lines 85-96: every entry of that name gets the new rate
update_polling_rate(host, new_rate) ==
    /\ dispatch # "none" /\ handling = <<>>
    /\ device_list' = [i \in DOMAIN device_list |->
                          IF device_list[i].name = host
                          THEN [device_list[i] EXCEPT !.polling_frequency = new_rate]
                          ELSE device_list[i]]
    /\ handling' = <<"update", host>>
    /\ UNCHANGED <<workers, launched, is_set, queue, now, desired, again, workerVars,
                   connVars, driverVars, threadVars,
                   watchVars, retryVars, cacheVars, callVars, busVars>>

\* reload_config at the end of a handler, lines 98, 150, 208: load_targets reads
\* the document and the agent reconciles; a load that raises leaves the handler
\* before reconcile is called
reload_loaded ==
    /\ handling # <<>>
    /\ IF load_targets(device_list).raised
       THEN UNCHANGED <<workers, launched, is_set, queue, now, desired, again,
                        workerVars, connVars>>
       ELSE agent_reconcile(load_targets(device_list).nodes, MaxLaunchDriver)
    /\ handling' = <<>>
    /\ UNCHANGED <<driverVars, threadVars, device_list, watchVars, retryVars, cacheVars, callVars, busVars>>

\* --------------------------------------------------------------- watch_config
\* the documents written under the watcher: at most one entry, none malformed
WatchLists ==
    {data \in DeviceLists : Len(data) <= 1 /\ \A i \in DOMAIN data : ~Malformed(data[i])}

\* device_list.json is rewritten from outside and gets a new modification time
rewrite ==
    /\ mtime <= MaxEdits
    /\ \E data \in WatchLists : device_list' = data
    /\ mtime' = mtime + 1
    /\ UNCHANGED <<workers, launched, is_set, queue, now, desired, again, workerVars,
                   connVars, driverVars, threadVars, handling, last_mtime, reload_failed,
                   retryVars, cacheVars, callVars, busVars>>

\* faulty variant: a reload that raised leaves last_mtime alone and is made again
watch_config_RetriesFailure ==
    /\ mtime # last_mtime
    /\ \/ /\ reload_failed' = TRUE
          /\ UNCHANGED <<workers, launched, is_set, queue, now, desired, again,
                         workerVars, connVars, last_mtime>>
       \/ /\ ~load_targets(device_list).raised
          /\ reconcile(load_targets(device_list).nodes, MaxLaunch)
          /\ reload_failed' = FALSE
          /\ last_mtime' = mtime
    /\ UNCHANGED <<driverVars, threadVars, configVars, mtime, retryVars, cacheVars,
                   callVars, busVars>>

\* one round of watch_config that finds a new modification time (lines 310-323):
\* last_mtime is set at line 315, then load_targets raises into the except of
\* line 322, as a read of a document that is being rewritten can, or it returns
\* and reconcile runs. A round that finds the old time changes nothing.
watch_config ==
    /\ mtime # last_mtime
    /\ last_mtime' = mtime
    /\ \/ /\ reload_failed' = TRUE
          /\ UNCHANGED <<workers, launched, is_set, queue, now, desired, again,
                         workerVars, connVars>>
       \/ /\ ~load_targets(device_list).raised
          /\ reconcile(load_targets(device_list).nodes, MaxLaunch)
          /\ reload_failed' = FALSE
    /\ UNCHANGED <<driverVars, threadVars, configVars, mtime, retryVars, cacheVars,
                   callVars, busVars>>

\* ------------------------------------------------------ PersistentConnection
Min(x, y) == IF x < y THEN x ELSE y

\* faulty variant: the delay keeps doubling
Backoff_Uncapped(n) == 2 ^ n

\* delay = min(2^attempt, 10 seconds), attempts counted from 1
Backoff(n) == Min(2 ^ n, BackoffCap)

\* faulty variant: the call gives up one attempt early
Exhausted_OneEarly(n, retries) == n + 1 >= retries

\* the loop is bounded by maxRetries
Exhausted(n, retries) == n >= retries

\* faulty variant: a failure leaves the session as it was
AfterFailure_KeepsSession(s) == s

\* on any failure the session is closed and nulled
AfterFailure(s) == "none"

\* run(command, cancelSignal) is called, the first time on a connection just made
\* with some maxRetries
run_begin ==
    /\ run_pc \in {"idle", "returned", "exhausted", "cancelled"}
    /\ \E retries \in 1..MaxRetries :
          /\ run_pc # "idle" => retries = max_retries
          /\ max_retries' = retries
    /\ run_pc' = "attempt"
    /\ attempt' = 1
    /\ waited' = 0
    /\ waits' = <<>>
    /\ cancel' = FALSE
    /\ UNCHANGED <<workers, launched, is_set, queue, now, desired, again, workerVars,
                   connVars, driverVars, threadVars, configVars, watchVars, underlying,
                   cacheVars, callVars, busVars>>

\* the attempt opens the session if there is none, executes the command, and run
\* returns the result
attempt_succeeds ==
    /\ run_pc = "attempt"
    /\ underlying' = "open"
    /\ run_pc' = "returned"
    /\ UNCHANGED <<workers, launched, is_set, queue, now, desired, again, workerVars,
                   connVars, driverVars, threadVars, configVars, watchVars,
                   max_retries, attempt, waited, waits, cancel, cacheVars, callVars, busVars>>

\* opening or executing fails: the session is closed and nulled, and the backoff
\* wait begins
attempt_fails ==
    /\ run_pc = "attempt"
    /\ underlying' = AfterFailure(underlying)
    /\ waited' = 0
    /\ run_pc' = "backoff"
    /\ UNCHANGED <<workers, launched, is_set, queue, now, desired, again, workerVars,
                   connVars, driverVars, threadVars, configVars, watchVars,
                   max_retries, attempt, waits, cancel, cacheVars, callVars, busVars>>

\* a second of the backoff wait passes
backoff_tick ==
    /\ run_pc = "backoff" /\ ~cancel
    /\ waited < Backoff(attempt)
    /\ waited' = waited + 1
    /\ UNCHANGED <<workers, launched, is_set, queue, now, desired, again, workerVars,
                   connVars, driverVars, threadVars, configVars, watchVars,
                   run_pc, max_retries, attempt, waits, underlying, cancel, cacheVars, callVars, busVars>>

\* the wait has run its delay: the next attempt, or after maxRetries failures
\* the connection-exhausted error
backoff_over ==
    /\ run_pc = "backoff" /\ ~cancel
    /\ waited = Backoff(attempt)
    /\ waits' = Append(waits, waited)
    /\ IF Exhausted(attempt, max_retries)
       THEN run_pc' = "exhausted" /\ UNCHANGED attempt
       ELSE run_pc' = "attempt" /\ attempt' = attempt + 1
    /\ UNCHANGED <<workers, launched, is_set, queue, now, desired, again, workerVars,
                   connVars, driverVars, threadVars, configVars, watchVars,
                   max_retries, waited, underlying, cancel, cacheVars, callVars, busVars>>

\* the cancelSignal fires; a command that is executing is not interrupted
cancel_fires ==
    /\ run_pc \in {"attempt", "backoff"} /\ ~cancel
    /\ cancel' = TRUE
    /\ UNCHANGED <<workers, launched, is_set, queue, now, desired, again, workerVars,
                   connVars, driverVars, threadVars, configVars, watchVars,
                   run_pc, max_retries, attempt, waited, waits, underlying, cacheVars, callVars, busVars>>

\* the wait finds the signal fired and run aborts with the cancellation error
backoff_cancelled ==
    /\ run_pc = "backoff" /\ cancel
    /\ run_pc' = "cancelled"
    /\ UNCHANGED <<workers, launched, is_set, queue, now, desired, again, workerVars,
                   connVars, driverVars, threadVars, configVars, watchVars,
                   max_retries, attempt, waited, waits, underlying, cancel, cacheVars, callVars, busVars>>

\* ------------------------------------------------------------ metrics_consumer
\* run_node, lines 253-268: some worker puts the event of a collection that has
\* succeeded or failed; the events of a run are stamped in the order of their puts
put_event ==
    /\ Len(consumed) + Len(queue) < MaxEvents
    /\ \E node \in Names, success \in BOOLEAN :
          queue' = Append(queue, MetricEvent(node, success, Len(consumed) + Len(queue) + 1))
    /\ UNCHANGED <<workers, launched, is_set, now, desired, again, workerVars,
                   connVars, driverVars, threadVars, configVars, watchVars, retryVars,
                   cacheVars, callVars, busVars>>

\* what dump(event.payload, f) stores: the payload, which holds the time of its
\* collection
Snapshot(event) == <<event.payload, event.timestamp>>

\* faulty variant: a file that exists is never written again
CacheAfter_KeepsFirst(files, event) ==
    IF event.success /\ files[event.node] = <<>>
    THEN [files EXCEPT ![event.node] = Snapshot(event)]
    ELSE files

\* lines 386-389: the event of a successful collection rewrites the file of its
\* node; any other event writes nothing
CacheAfter(files, event) ==
    IF event.success
    THEN [files EXCEPT ![event.node] = Snapshot(event)]
    ELSE files

\* one round of metrics_consumer: queue.get() and the write
metrics_consumer ==
    /\ queue # <<>>
    /\ queue' = Tail(queue)
    /\ cache' = CacheAfter(cache, Head(queue))
    /\ consumed' = Append(consumed, Head(queue))
    /\ UNCHANGED <<workers, launched, is_set, now, desired, again, workerVars,
                   connVars, driverVars, threadVars, configVars, watchVars, retryVars,
                   callVars, busVars>>

\* ---------------------------------------------------------------- EventBus
\* The bus on its own: any handlers, any events. An event on the queue is the pair
\* of its type and its number in the order of the puts, which stands for the data.

\* subscribe, lines 16-18: the handler goes to the end of the list of its type
subscribe(event_type, handler) ==
    /\ Len(subscribers[event_type]) < MaxHandlers
    /\ subscribers' = [subscribers EXCEPT ![event_type] = Append(@, handler)]
    /\ UNCHANGED <<workers, launched, is_set, queue, now, desired, again, workerVars,
                   connVars, running, agent, drain_expired, stop_pc, dispatch, held,
                   intents, configVars, watchVars, retryVars, cacheVars, callVars>>
    /\ UNCHANGED <<bus_running, bus_queue, loop, bus_state, current, published, delivered>>

\* publish, lines 20-21, from any thread
bus_publish(event_type) ==
    /\ Len(published) < MaxPublished
    /\ bus_queue' = Append(bus_queue, <<event_type, Len(published) + 1>>)
    /\ published' = Append(published, <<event_type, Len(published) + 1>>)
    /\ UNCHANGED <<workers, launched, is_set, queue, now, desired, again, workerVars,
                   connVars, running, agent, drain_expired, stop_pc, dispatch, held,
                   intents, configVars, watchVars, retryVars, cacheVars, callVars>>
    /\ UNCHANGED <<bus_running, loop, subscribers, bus_state, current, delivered>>

\* start, lines 23-26: running is set and the thread of _event_loop begins; it
\* passes the test of line 34 and comes to the get of line 36
bus_start ==
    /\ bus_state = "new"
    /\ bus_running' = TRUE
    /\ bus_state' = "started"
    /\ UNCHANGED <<workers, launched, is_set, queue, now, desired, again, workerVars,
                   connVars, running, agent, drain_expired, stop_pc, dispatch, held,
                   intents, configVars, watchVars, retryVars, cacheVars, callVars>>
    /\ UNCHANGED <<bus_queue, loop, subscribers, current, published, delivered>>

\* stop, line 29, called from any thread, a handler's included
bus_stop_flag ==
    /\ bus_state = "started"
    /\ bus_running' = FALSE
    /\ bus_state' = "stopping"
    /\ UNCHANGED <<workers, launched, is_set, queue, now, desired, again, workerVars,
                   connVars, running, agent, drain_expired, stop_pc, dispatch, held,
                   intents, configVars, watchVars, retryVars, cacheVars, callVars>>
    /\ UNCHANGED <<bus_queue, loop, subscribers, current, published, delivered>>

\* stop, line 31: (None, None) is put behind what the queue holds
bus_stop_put ==
    /\ bus_state = "stopping"
    /\ bus_queue' = Append(bus_queue, <<"None", Len(published) + 1>>)
    /\ published' = Append(published, <<"None", Len(published) + 1>>)
    /\ bus_state' = "stopped"
    /\ UNCHANGED <<workers, launched, is_set, queue, now, desired, again, workerVars,
                   connVars, running, agent, drain_expired, stop_pc, dispatch, held,
                   intents, configVars, watchVars, retryVars, cacheVars, callVars>>
    /\ UNCHANGED <<bus_running, loop, subscribers, current, delivered>>

\* faulty variant: (None, None) is taken like an event of a type without handlers
loop_take_IgnoresMarker ==
    /\ bus_state # "new"
    /\ loop = "get"
    /\ bus_queue # <<>>
    /\ bus_queue' = Tail(bus_queue)
    /\ LET event_type == Head(bus_queue)[1]
       IN  IF event_type = "None" \/ subscribers[event_type] = <<>>
           THEN loop' = AfterEvent /\ current' = <<>>
           ELSE loop' = "handlers" /\ current' = <<Head(bus_queue), 1>>
    /\ UNCHANGED <<workers, launched, is_set, queue, now, desired, again, workerVars,
                   connVars, running, agent, drain_expired, stop_pc, dispatch, held,
                   intents, configVars, watchVars, retryVars, cacheVars, callVars>>
    /\ UNCHANGED <<bus_running, subscribers, bus_state, published, delivered>>

\* _event_loop, lines 36-43: the oldest entry of the queue is taken; (None, None)
\* ends the loop; an event of a type nobody subscribed to has an empty list of
\* handlers and the loop is back at line 34; otherwise the for loop begins
loop_take ==
    /\ bus_state # "new"
    /\ loop = "get"
    /\ bus_queue # <<>>
    /\ bus_queue' = Tail(bus_queue)
    /\ LET event_type == Head(bus_queue)[1]
       IN  IF event_type = "None"
           THEN loop' = "exit" /\ current' = <<>>
           ELSE IF subscribers[event_type] = <<>>
                THEN loop' = AfterEvent /\ current' = <<>>
                ELSE loop' = "handlers" /\ current' = <<Head(bus_queue), 1>>
    /\ UNCHANGED <<workers, launched, is_set, queue, now, desired, again, workerVars,
                   connVars, running, agent, drain_expired, stop_pc, dispatch, held,
                   intents, configVars, watchVars, retryVars, cacheVars, callVars>>
    /\ UNCHANGED <<bus_running, subscribers, bus_state, published, delivered>>

\* what a call of a handler can do: f returns, g returns or raises
Outcomes(handler) == IF handler = "g" THEN BOOLEAN ELSE {FALSE}

\* lines 43-46: the for loop calls the next handler of the list, which will
\* return or raise
loop_call ==
    /\ loop = "handlers"
    /\ current[2] <= Len(subscribers[current[1][1]])
    /\ \E raises \in Outcomes(subscribers[current[1][1]][current[2]]) :
          delivered' = Append(delivered,
                              [event |-> current[1], place |-> current[2],
                               handler |-> subscribers[current[1][1]][current[2]],
                               raised |-> raises])
    /\ loop' = "handler"
    /\ UNCHANGED <<workers, launched, is_set, queue, now, desired, again, workerVars,
                   connVars, running, agent, drain_expired, stop_pc, dispatch, held,
                   intents, configVars, watchVars, retryVars, cacheVars, callVars>>
    /\ UNCHANGED <<bus_running, bus_queue, subscribers, bus_state, current, published>>

\* faulty variant: a handler that raises ends the for loop of its event
loop_return_RaiseEndsEvent ==
    /\ loop = "handler"
    /\ IF delivered[Len(delivered)].raised
       THEN loop' = AfterEvent /\ current' = <<>>
       ELSE loop' = "handlers" /\ current' = <<current[1], current[2] + 1>>
    /\ UNCHANGED <<workers, launched, is_set, queue, now, desired, again, workerVars,
                   connVars, running, agent, drain_expired, stop_pc, dispatch, held,
                   intents, configVars, watchVars, retryVars, cacheVars, callVars>>
    /\ UNCHANGED <<bus_running, bus_queue, subscribers, bus_state, published, delivered>>

\* lines 46-48: the handler returns, or raises into the except that prints; the
\* for loop goes to the next place of the list either way
loop_return ==
    /\ loop = "handler"
    /\ loop' = "handlers"
    /\ current' = <<current[1], current[2] + 1>>
    /\ UNCHANGED <<workers, launched, is_set, queue, now, desired, again, workerVars,
                   connVars, running, agent, drain_expired, stop_pc, dispatch, held,
                   intents, configVars, watchVars, retryVars, cacheVars, callVars>>
    /\ UNCHANGED <<bus_running, bus_queue, subscribers, bus_state, published, delivered>>

\* the list is at its end: back to while self.running, line 34
loop_next ==
    /\ loop = "handlers"
    /\ current[2] > Len(subscribers[current[1][1]])
    /\ loop' = AfterEvent
    /\ current' = <<>>
    /\ UNCHANGED <<workers, launched, is_set, queue, now, desired, again, workerVars,
                   connVars, running, agent, drain_expired, stop_pc, dispatch, held,
                   intents, configVars, watchVars, retryVars, cacheVars, callVars>>
    /\ UNCHANGED <<bus_running, bus_queue, subscribers, bus_state, published, delivered>>

\* -------------------------------------------------------------------- spec
Init ==
    /\ workers = <<>>
    /\ launched = <<>>
    /\ is_set = {}
    /\ pc = [h \in Handles |-> "none"]
    /\ next_run = [h \in Handles |-> 0]
    /\ result = [h \in Handles |-> "none"]
    /\ queue = <<>>
    /\ now = 0
    /\ start_time = [h \in Handles |-> 0]
    /\ cycles = [h \in Handles |-> 0]
    /\ collect_at = [h \in Handles |-> 0]
    /\ all_fast = [h \in Handles |-> TRUE]
    /\ on_time = [h \in Handles |-> TRUE]
    /\ desired = NoCall
    /\ again = FALSE
    /\ conn = [h \in Handles |-> <<>>]
    /\ session = [h \in Handles |-> "none"]
    /\ in_flight = <<>>
    /\ running = FALSE
    /\ agent = "up"
    /\ drain_expired = FALSE
    /\ stop_pc = "idle"
    /\ dispatch = "none"
    /\ held = <<>>
    /\ bus_running = FALSE
    /\ bus_queue = <<>>
    /\ loop = "get"
    /\ intents = 0
    /\ device_list = <<>>
    /\ handling = <<>>
    /\ mtime = 1
    /\ last_mtime = 0
    /\ run_pc = "idle"
    /\ max_retries = 1
    /\ attempt = 0
    /\ waited = 0
    /\ waits = <<>>
    /\ underlying = "none"
    /\ cancel = FALSE
    /\ cache = [n \in Names |-> <<>>]
    /\ consumed = <<>>
    /\ given = <<>>
    /\ reload_failed = FALSE
    /\ subscribers = [t \in EventTypes |-> <<>>]
    /\ bus_state = "new"
    /\ current = <<>>
    /\ published = <<>>
    /\ delivered = <<>>

Next ==
    \/ Reconcile
    \/ \E h \in Handles : Start(h, PoolCap)
    \/ \E h \in Handles : Check(h, MaxQueue)
    \/ \E h \in Handles : Wait(h, MaxQueue)
    \/ \E h \in Handles : Collect(h)
    \/ \E h \in Handles : Emit(h)
    \/ \E h \in Handles : Sched(h)

\* reconcile calls against running workers, all within one reading of the clock
Spec == Init /\ [][Next]_vars

NextGiven ==
    \/ ReconcileGiven
    \/ \E h \in Handles : Start(h, PoolCap)
    \/ \E h \in Handles : Check(h, MaxQueue)
    \/ \E h \in Handles : Collect(h)
    \/ \E h \in Handles : Emit(h)

\* the same calls with the list each was given on record, the workers followed up
\* to their first event
SpecGiven == Init /\ [][NextGiven]_vars

\* one node followed over a longer stretch of time
NextSched ==
    \/ ReconcileSched
    \/ \E h \in Handles : Start(h, PoolCap)
    \/ \E h \in Handles : Check(h, MaxQueueSched)
    \/ \E h \in Handles : Wait(h, MaxQueueSched)
    \/ \E h \in Handles : Collect(h)
    \/ \E h \in Handles : Emit(h)
    \/ \E h \in Handles : Sched(h)
    \/ \E h \in Handles : Snap(h)
    \/ TickSched

SpecSched == Init /\ [][NextSched]_vars

\* the one node "a" reloaded with changing intervals, every worker free to poll
ReconcileRestart ==
    /\ \E new_nodes \in SchedLists : reconcile(new_nodes, MaxLaunch)
    /\ UNCHANGED driverVars
    /\ UNCHANGED outerVars

NextRestart ==
    \/ ReconcileRestart
    \/ \E h \in Handles : Start(h, PoolCap)
    \/ \E h \in Handles : Check(h, MaxLaunch)
    \/ \E h \in Handles : Wait(h, MaxLaunch)
    \/ \E h \in Handles : Collect(h)
    \/ \E h \in Handles : Emit(h)
    \/ \E h \in Handles : Sched(h)

SpecRestart == Init /\ [][NextRestart]_vars

\* both nodes reloaded at will against a pool of MaxPool threads
NextPool ==
    \/ Reconcile
    \/ \E h \in Handles : Start(h, MaxPool)
    \/ \E h \in Handles : Check(h, MaxLaunch)
    \/ \E h \in Handles : Wait(h, MaxLaunch)
    \/ \E h \in Handles : Collect(h)
    \/ \E h \in Handles : Emit(h)
    \/ \E h \in Handles : Sched(h)

SpecPool == Init /\ [][NextPool]_vars

\* the steps of one run_node call on a pool of MaxPool threads
run_pooled(h) ==
    \/ Start(h, MaxPool)
    \/ Check(h, MaxLaunch)
    \/ Wait(h, MaxLaunch)
    \/ Collect(h)
    \/ Emit(h)
    \/ Sched(h)

\* every submitted call is run as soon as the pool has a thread for it, every thread
\* keeps being scheduled, and every collect() returns or raises
SpecPoolFair == SpecPool /\ \A h \in Handles : WF_vars(run_pooled(h))

\* the driver started, reloaded and stopped around the workers of the node "a"
NextDriver ==
    \/ start
    \/ reload_config
    \/ stop_system_flag
    \/ shutdown_begin
    \/ shutdown_return
    \/ stop_system_bus
    \/ stop_system_join
    \/ dispatch_test
    \/ dispatch_get
    \/ dispatch_publish
    \/ \E h \in Handles : Start(h, PoolCap)
    \/ \E h \in Handles : Check(h, MaxLaunchDriver)
    \/ \E h \in Handles : Wait(h, MaxLaunchDriver)
    \/ \E h \in Handles : Collect(h)
    \/ \E h \in Handles : Emit(h)
    \/ \E h \in Handles : Sched(h)

SpecDriver == Init /\ [][NextDriver]_vars

\* the main thread of main.py and the event loop's thread: Driver.start and the
\* stop_system of the KeyboardInterrupt handler (main.py:34) run on the first,
\* the handlers of the control events on the second
NextThreads ==
    \/ start
    \/ publish
    \/ loop_get
    \/ loop_remove
    \/ loop_reconcile
    \/ loop_stopped
    \/ stop_system_flag
    \/ shutdown_begin
    \/ shutdown_return
    \/ stop_system_bus
    \/ stop_system_join
    \/ dispatch_test
    \/ dispatch_get
    \/ dispatch_publish
    \/ \E h \in Handles : Start(h, PoolCap)
    \/ \E h \in Handles : Check(h, MaxQueue)
    \/ \E h \in Handles : Wait(h, MaxQueue)
    \/ \E h \in Handles : Collect(h)
    \/ \E h \in Handles : Emit(h)
    \/ \E h \in Handles : Sched(h)

SpecThreads == Init /\ [][NextThreads]_vars

\* the threads of stop_system, of _dispatch_metrics and of the event loop keep
\* being scheduled
SpecThreadsFair ==
    SpecThreads /\ WF_vars(shutdown_begin) /\ WF_vars(shutdown_return)
                /\ WF_vars(stop_system_bus) /\ WF_vars(stop_system_join)
                /\ WF_vars(dispatch_test) /\ WF_vars(dispatch_get)
                /\ WF_vars(dispatch_publish) /\ WF_vars(loop_stopped)

\* the handlers of the control events, one at a time, from any device_list.json
\* the program may find when it starts; every worker is followed up to its first
\* collect()
NextConfig ==
    \/ edit
    \/ start_loaded
    \/ \E node_config \in Items : add_node(node_config)
    \/ \E node_name \in Names : remove_node(node_name)
    \/ \E host \in Names, new_rate \in Intervals : update_polling_rate(host, new_rate)
    \/ reload_loaded
    \/ \E h \in Handles : Start(h, PoolCap)
    \/ \E h \in Handles : Check(h, MaxQueue)

SpecConfig == Init /\ [][NextConfig]_vars

\* the Supervisor's watcher over a device_list.json rewritten MaxEdits times
NextWatch ==
    \/ rewrite
    \/ watch_config
    \/ \E h \in Handles : Start(h, PoolCap)
    \/ \E h \in Handles : Check(h, MaxQueue)
    \/ \E h \in Handles : Wait(h, MaxQueue)
    \/ \E h \in Handles : Collect(h)
    \/ \E h \in Handles : Emit(h)
    \/ \E h \in Handles : Sched(h)

SpecWatch == Init /\ [][NextWatch]_vars

\* the watcher's thread keeps being scheduled: a round that has work to do is run
SpecWatchFair == SpecWatch /\ WF_vars(watch_config)

\* calls of run on one connection
NextRetry ==
    \/ run_begin
    \/ attempt_succeeds
    \/ attempt_fails
    \/ backoff_tick
    \/ backoff_over
    \/ cancel_fires
    \/ backoff_cancelled

SpecRetry == Init /\ [][NextRetry]_vars

NextBus ==
    \/ \E event_type \in EventTypes : \E handler \in HandlerIds :
          subscribe(event_type, handler)
    \/ \E event_type \in EventTypes : bus_publish(event_type)
    \/ bus_start
    \/ bus_stop_flag
    \/ bus_stop_put
    \/ loop_take
    \/ loop_call
    \/ loop_return
    \/ loop_next

\* one EventBus with its subscribers, its publishers and the thread of its loop
SpecBus == Init /\ [][NextBus]_vars

\* the thread of the loop keeps being scheduled, and handlers return
SpecBusFair ==
    SpecBus /\ WF_vars(loop_take) /\ WF_vars(loop_call) /\ WF_vars(loop_return)
            /\ WF_vars(loop_next)

\* the consumer behind a queue that the workers fill
NextConsumer ==
    \/ put_event
    \/ metrics_consumer

SpecConsumer == Init /\ [][NextConsumer]_vars

\* the steps of one run_node call, which has a pool thread of its own
run_node(h) ==
    \/ Start(h, PoolCap)
    \/ Check(h, MaxQueueSched)
    \/ Wait(h, MaxQueueSched)
    \/ Collect(h)
    \/ Emit(h)
    \/ Sched(h)
    \/ Snap(h)

\* every pool thread keeps being scheduled, and every collect() returns or raises
SpecSchedFair == SpecSched /\ \A h \in Handles : WF_vars(run_node(h))

\* ------------------------------------------------------------- properties
Submitted == 1..Len(launched)

NameOf(h) == launched[h].name

\* what one step did, read off the state before and after it
NewHandles == (Len(launched) + 1)..Len(launched')
StartedNames == {launched'[h].name : h \in NewHandles}
SignalledNow == is_set' \ is_set
HandlesOf(S) == {workers[n].stop_event : n \in S}
CalledWith == DOMAIN desired'
Running == DOMAIN workers
Changed == {n \in CalledWith \cap Running : desired'[n].interval # workers[n].interval}
Unchanged == (CalledWith \cap Running) \ Changed

UntouchedNames ==
    \A n \in Unchanged :
        /\ n \notin StartedNames
        /\ workers[n].stop_event \notin SignalledNow
        /\ workers'[n] = workers[n]

\* C1 as stated: a call to reconcile with name set D against running set R starts
\* exactly D \ R, signals exactly the handles of R \ D, and neither starts nor stops
\* a name of D \cap R whose interval is unchanged.
C1_StartsAndStopsOnlyTheDifference ==
    [][desired' # NoCall =>
          /\ StartedNames = CalledWith \ Running
          /\ SignalledNow = HandlesOf(Running \ CalledWith)
          /\ UntouchedNames]_vars

\* C1 amended: a call starts one worker for exactly the names of D \ R and of D \cap R
\* with a changed interval, signals exactly the handles of R \ D and of those changed
\* names, and neither starts nor stops a name of D \cap R whose interval is unchanged.
C1_DiffCorrectness ==
    [][desired' # NoCall =>
          /\ StartedNames = (CalledWith \ Running) \cup Changed
          /\ Cardinality(NewHandles) = Cardinality(StartedNames)
          /\ SignalledNow = HandlesOf((Running \ CalledWith) \cup Changed)
          /\ UntouchedNames]_vars

\* a call has started one name, stopped another and left a third call's worth alone:
\* a signalled worker whose name left the map next to a live one that is in it
C1_Witness ==
    /\ Len(launched) = 3
    /\ \E h1, h2 \in Submitted :
          /\ h1 \in is_set /\ NameOf(h1) \notin DOMAIN workers
          /\ h2 \notin is_set /\ NameOf(h2) \in DOMAIN workers
          /\ workers[NameOf(h2)].stop_event = h2

\* C2: when reconcile returns, the keys of the worker map are the names of the
\* desired list.
C2_MapMatchesDesired ==
    desired # NoCall => DOMAIN workers = DOMAIN desired

\* reconcile([]) has returned after an interval change had restarted a worker
C2_Witness ==
    /\ desired # NoCall
    /\ DOMAIN desired = {}
    /\ \E h1, h2 \in Submitted :
          h1 < h2 /\ NameOf(h1) = NameOf(h2) /\ launched[h1].interval # launched[h2].interval

\* C3: for every name at most one stop_event made for it is unset, and it is the
\* latest one: every earlier one has been set.
C3_OneLiveHandlePerName ==
    \A h1, h2 \in Submitted :
        (h1 < h2 /\ NameOf(h1) = NameOf(h2)) => h1 \in is_set

\* a name with a set handle and a later, live one
C3_Witness ==
    \E h1, h2 \in Submitted :
        /\ h1 < h2 /\ NameOf(h1) = NameOf(h2)
        /\ h1 \in is_set /\ h2 \notin is_set

\* C4 as stated: at any time at most one worker loop per name is between its start
\* and its exit, also across an interval-change restart.
C4_OneLoopPerName ==
    \A h1, h2 \in Submitted :
        (h1 # h2 /\ NameOf(h1) = NameOf(h2)) => ~(Executing(h1) /\ Executing(h2))

\* C5: a reconcile call that repeats the call before it starts nothing, signals
\* nothing and leaves the worker map as it was.
C5_Idempotent ==
    [][(again' /\ ~again) => UNCHANGED <<workers, launched, is_set, pc, queue>>]_vars

\* the same non-empty configuration has been reconciled twice in a row
C5_Witness ==
    /\ again
    /\ DOMAIN workers # {}
    /\ \E h \in Submitted : Executing(h)

\* C6: for a name in both the map and the desired list with a different interval,
\* reconcile sets the old handle, makes a new one, submits a worker with the
\* desired interval under it and makes the map entry refer to the new node.
C6_IntervalChangeRestarts ==
    [][desired' # NoCall =>
          \A n \in Changed :
              LET old == workers[n].stop_event
                  new == workers'[n].stop_event
              IN  /\ old \in is_set'
                  /\ new # old
                  /\ new \in NewHandles
                  /\ new \notin is_set'
                  /\ pc'[new] = "queued"
                  /\ launched'[new] = NodeOf(n, desired'[n].interval)
                  /\ workers'[n].interval = desired'[n].interval]_vars

\* a running name was reconciled to another interval
C6_Witness ==
    \E n \in DOMAIN workers : \E h \in Submitted :
        /\ h < workers[n].stop_event
        /\ NameOf(h) = n
        /\ launched[h].interval # workers[n].interval
        /\ h \in is_set
        /\ Executing(h)

EventsOf(n) == Cardinality({i \in DOMAIN queue : queue[i].node = n})

PastCollectionOf(n) ==
    SumOver([h \in Handles |->
                IF h \in Submitted /\ NameOf(h) = n THEN PastCollection(h) ELSE 0],
            Handles)

LeavesEmit(h) == pc[h] = "emit" /\ pc'[h] # "emit"

\* C7: every cycle that reaches the collection step puts exactly one MetricEvent on
\* the queue, a success event if collect returned and a failure event if it raised.
C7_OneEventPerCycle ==
    /\ [](\A n \in Names : EventsOf(n) = PastCollectionOf(n))
    /\ [][/\ \A h \in Handles :
               LeavesEmit(h) =>
                   queue' = Append(queue, MetricEvent(NameOf(h), result[h] = "ok", now))
          /\ (\A h \in Handles : ~LeavesEmit(h)) => queue' = queue]_vars

\* a returned and a raised collection have each left their event
C7_Witness ==
    /\ Len(queue) >= 2
    /\ queue[1].success
    /\ ~queue[2].success
    /\ 1 \in Submitted /\ pc[1] = "sched" /\ cycles[1] = 1

\* C8: a failed collection never ends the worker loop: after the failure event the
\* worker goes on to schedule its next cycle, and the loop returns only from a stop
\* check that found the stop_event set.
C8_FailureNeverEndsLoop ==
    /\ [](\A h \in Handles : pc[h] = "done" => h \in is_set)
    /\ [][\A h \in Handles :
            /\ (pc[h] = "collect" /\ pc'[h] # "collect") => pc'[h] = "emit"
            /\ LeavesEmit(h) => pc'[h] = "sched"
            /\ (pc[h] = "sched" /\ pc'[h] # "sched") => pc'[h] \in {"check", "snap"}
            /\ (pc[h] # "done" /\ pc'[h] = "done") =>
                   (h \in is_set /\ pc[h] \in {"check", "wait"})]_vars

\* two collections in a row have failed and the worker is in its third
C8_Witness ==
    /\ Len(queue) >= 2
    /\ ~queue[1].success
    /\ ~queue[2].success
    /\ 1 \in Submitted /\ pc[1] = "collect" /\ 1 \notin is_set

\* next_run holds the scheduled time of collection number cycles[h]
HoldsSchedule(h) == pc[h] \in {"check", "wait", "collect", "emit", "sched"}

OnGrid(h) == next_run[h] = start_time[h] + cycles[h] * launched[h].interval

\* C9 as stated: when every collection so far took less than the interval, the k-th
\* collection is scheduled at start + k * interval.
C9_NoDriftWhenCollectionsFast ==
    \A h \in Submitted : (HoldsSchedule(h) /\ all_fast[h]) => OnGrid(h)

\* C9 amended: when every cycle so far reached its overrun test no later than the
\* next scheduled time, the k-th collection is scheduled at start + k * interval.
C9_NoDriftWhenCyclesOnTime ==
    \A h \in Submitted : (HoldsSchedule(h) /\ on_time[h]) => OnGrid(h)

\* the third collection runs on schedule although the first event was put late
C9_Witness ==
    /\ 1 \in Submitted /\ pc[1] = "collect"
    /\ on_time[1] /\ cycles[1] = 2
    /\ Len(queue) = 2
    /\ queue[1].timestamp > start_time[1]

\* C10: after an overrun the worker re-anchors next_run to the clock, so next_run
\* is never in the past when a cycle ends, the following collection is immediate,
\* and every cycle moves next_run on by at least one interval (no catch-up runs).
C10_OverrunReanchors ==
    [][\A h \in Handles :
         /\ (pc[h] = "sched" /\ pc'[h] # "sched") =>
                /\ pc'[h] = (IF next_run[h] + launched[h].interval < now
                             THEN "snap" ELSE "check")
                /\ next_run'[h] >= next_run[h] + launched[h].interval
         /\ (pc[h] = "snap" /\ pc'[h] # "snap") =>
                (pc'[h] = "check" /\ next_run'[h] = now')
         /\ (pc[h] \in {"sched", "snap"} /\ pc'[h] = "check") => next_run'[h] >= now'
         /\ (pc[h] = "check" /\ pc'[h] = "wait") => next_run[h] > now
         /\ (pc[h] = "check" /\ pc'[h] \notin {"check", "done"} /\ next_run[h] <= now) =>
                pc'[h] = "collect"]_vars

\* the first cycle overran by several intervals; one collection followed at once,
\* and the worker now waits a full interval from the re-anchored time
C10_Witness ==
    /\ 1 \in Submitted /\ pc[1] = "wait"
    /\ cycles[1] = 2
    /\ Len(queue) = 2
    /\ next_run[1] >= start_time[1] + 4 * launched[1].interval

\* C11: a worker whose stop_event is set while it is in its scheduling wait can leave
\* the wait at once, before next_run is reached; when it leaves it has returned
\* from run_node, without a collection and with the queue as it was, for good.
C11_CancelledWaitExits ==
    /\ [](\A h \in Handles :
            (pc[h] = "wait" /\ h \in is_set) => ENABLED Wait(h, MaxQueueSched))
    /\ [][\A h \in Handles :
            /\ (pc[h] = "wait" /\ h \in is_set /\ pc'[h] # "wait") =>
                   (pc'[h] = "done" /\ queue' = queue)
            /\ pc[h] = "done" => pc'[h] = "done"]_vars

\* a worker that has polled once was signalled in its wait, ahead of its next run
C11_Witness ==
    /\ 1 \in Submitted /\ pc[1] = "wait" /\ 1 \in is_set
    /\ cycles[1] >= 1
    /\ now < next_run[1]

\* C12: a worker loop whose stop_event is set eventually returns from run_node,
\* whatever is on the queue and although nothing takes events off it.
C12_CancelledWorkerExits ==
    \A h \in Handles : (h \in is_set /\ Executing(h)) ~> (pc[h] = "done")

\* a signalled worker is about to put its event behind one nobody has taken
C12_Witness ==
    /\ 1 \in Submitted /\ pc[1] = "emit" /\ 1 \in is_set
    /\ Len(queue) >= 1

\* C13 as stated: a worker that has returned from run_node, by whichever path, has
\* left no session open on its connection.
C13_ExitClosesConnection ==
    \A h \in Submitted : pc[h] = "done" => session[h] # "open"

\* C14 as stated: once reconcile has removed a name, signalled its worker and
\* returned, that worker puts no further event on the queue, wherever in its
\* cycle the signal found it.
C14_NoEventAfterRemoval ==
    [][\A h \in Handles :
          LeavesEmit(h) => ~(h \in is_set /\ NameOf(h) \notin DOMAIN workers)]_vars

\* C15 as stated: the events of one name reach the queue in the order of the polls
\* they report: a worker that puts its event has no worker of the same name ahead
\* of it whose poll is over and whose event is still to be put.
C15_EventsInPollOrder ==
    [][\A h \in Handles :
          LeavesEmit(h) =>
              \A g \in Range(in_flight) :
                  (g # h /\ NameOf(g) = NameOf(h)) =>
                      IndexOf(in_flight, h) < IndexOf(in_flight, g)]_vars

\* C16 as stated: every worker that reconcile has submitted, for as long as it is
\* not signalled, gets to its first collection and puts its event, and it does so
\* without a wait before that first collection; also with more nodes than threads.
C16_FirstCollectionHappens ==
    /\ \A h \in Handles :
          (h \in Submitted /\ h \notin is_set) ~> (h \in is_set \/ cycles[h] >= 1)
    /\ [](\A h \in Handles : pc[h] = "wait" => cycles[h] >= 1)

ExecutingNow == {h \in Handles : Executing(h)}

\* C17: the worker loops executing at one time never outnumber the threads of the
\* pool; a call submitted beyond that stays queued, and one is started only when
\* fewer than that many are executing.
C17_PoolCapHolds ==
    /\ [](Cardinality(ExecutingNow) <= MaxPool)
    /\ [][\A h \in Handles :
            (pc[h] = "queued" /\ pc'[h] # "queued") =>
                Cardinality(ExecutingNow) < MaxPool]_vars

\* with the pool full a third call was held back while an earlier one, signalled,
\* ran to its exit and made room for the second
C17_Witness ==
    /\ Len(launched) = 3
    /\ pc[1] = "done" /\ Executing(2) /\ pc[3] = "queued"
    /\ Cardinality(ExecutingNow) = MaxPool

\* C18: no two submitted workers hold the same connection, a signalled worker and
\* its replacement and workers of different loads included; and the stop_events
\* in the worker map are those of workers of the entry's own name, a different
\* one for every name.
C18_NothingShared ==
    /\ \A h1, h2 \in Submitted : h1 # h2 => conn[h1] # conn[h2]
    /\ \A n \in DOMAIN workers :
          /\ workers[n].stop_event \in Submitted
          /\ NameOf(workers[n].stop_event) = n
    /\ \A n1, n2 \in DOMAIN workers :
          n1 # n2 => workers[n1].stop_event # workers[n2].stop_event

\* a signalled worker and its replacement, made from a later load, both in their
\* loops next to the worker of another name
C18_Witness ==
    \E h1, h2, h3 \in Submitted :
        /\ h1 < h2 /\ NameOf(h1) = NameOf(h2) /\ NameOf(h3) # NameOf(h1)
        /\ h1 \in is_set /\ h2 \notin is_set
        /\ Executing(h1) /\ Executing(h2) /\ Executing(h3)

\* C19: shutdown sets the stop_event of every worker in the map; when it has
\* returned with the pool drained in time, no run_node call is executing or
\* waiting for a thread; and from its first step on the agent submits no call.
C19_ShutdownStopsEveryWorker ==
    /\ [][(stop_pc = "flagged" /\ stop_pc' = "draining") =>
             \A n \in DOMAIN workers : workers[n].stop_event \in is_set']_vars
    /\ []((agent = "down" /\ ~drain_expired) =>
             \A h \in Handles : ~Executing(h) /\ pc[h] # "queued")
    /\ [][agent # "up" => launched' = launched]_vars

\* shutdown has returned after draining two workers, one of them a replacement,
\* and one of them had polled
C19_Witness ==
    /\ agent = "down" /\ ~drain_expired
    /\ Len(launched) = 2
    /\ pc[1] = "done" /\ pc[2] = "done"
    /\ cycles[1] + cycles[2] >= 1

\* C20 as stated: while a worker may still put an event, the dispatch loop has
\* stopped only if the agent's shutdown has returned before; and the loop drops
\* no event it has taken off the queue.
C20_DispatchOutlivesShutdown ==
    /\ []((dispatch = "exit" /\ ~Drained) =>
             stop_pc \in {"agent_down", "bus_stopped", "done"})
    /\ [][(dispatch = "got" /\ dispatch' # "got") =>
             bus_queue' = Append(bus_queue, <<"METRIC_EVENT", held[1]>>)]_vars

\* events the dispatch loop has republished on the event bus
Republished == Cardinality({i \in DOMAIN bus_queue : bus_queue[i][1] = "METRIC_EVENT"})

\* events the workers have put on the metrics queue
Produced == SumOver([g \in Handles |-> PastCollection(g)], Handles)

\* C21 as stated: every event a worker has put is on the metrics queue, in the
\* dispatch loop's hand or republished, each exactly once, so none is taken and
\* dropped or republished twice; and once stop_system has returned none is left
\* on the metrics queue.
C21_EveryEventRepublishedOnce ==
    /\ Produced = Len(queue) + Len(held) + Republished
    /\ stop_pc = "done" => queue = <<>>

\* the main thread is inside polling_agent.shutdown()
MainMutates == stop_pc = "draining" /\ loop # "stop"

\* the event loop's thread is inside a call that changes the worker map
LoopMutates == loop \in {"remove", "reconcile"} \/ (loop = "stop" /\ stop_pc = "draining")

\* C22 as stated: at no time are two threads inside calls that change the worker
\* map (launch_nodes, reconcile, remove_node, shutdown).
C22_MapMutationsNeverOverlap == ~(MainMutates /\ LoopMutates)

\* a handler of that kind returns from its reload_config
Finishes(kind) == handling # <<>> /\ handling[1] = kind /\ handling' = <<>>

\* C23 as stated, for an intent that names a supported kind: an add-node intent
\* for a name the document holds changes nothing and reloads nothing; one for a
\* new name appends exactly one entry, and when its handler returns the map
\* holds a worker of that name.
C23_AddNodeAddsOneWorker ==
    /\ [][\A node_config \in Items :
             (add_node(node_config) /\
              \E i \in DOMAIN device_list : device_list[i].name = node_config.name) =>
                 UNCHANGED <<device_list, workers, launched, is_set, pc, desired>>]_vars
    /\ [][(handling = <<>> /\ handling' # <<>> /\ handling'[1] = "add") =>
             /\ Len(device_list') = Len(device_list) + 1
             /\ SubSeq(device_list', 1, Len(device_list)) = device_list
             /\ device_list'[Len(device_list')].name = handling'[2]]_vars
    /\ [][(Finishes("add") /\ Supported(device_list[Len(device_list)])) =>
             handling[2] \in DOMAIN workers']_vars

\* C24 as stated: when the handler of a remove-node intent for n returns, the map
\* has no entry for n and every worker ever started for n has its stop_event set.
C24_RemovedNodeStaysRemoved ==
    [][Finishes("remove") =>
          /\ handling[2] \notin DOMAIN workers'
          /\ \A h \in 1..Len(launched') :
                launched'[h].name = handling[2] => h \in is_set']_vars

\* the document without its malformed and unsupported entries
WithoutOffending(data) == SelectSeq(data, LAMBDA item : ~Malformed(item) /\ Supported(item))

\* C25 as stated: a reload reconciles the nodes of the document exactly as if its
\* malformed and unsupported entries were absent.
C25_OffendingEntryAloneSkipped ==
    [][(handling # <<>> /\ handling' = <<>>) =>
          /\ desired' = new_map(load_targets(WithoutOffending(device_list)).nodes)
          /\ DOMAIN workers' = DOMAIN desired']_vars

\* the names of the supported entries of the stored document
SupportedNames == {device_list[i].name : i \in {j \in DOMAIN device_list : Supported(device_list[j])}}

\* C26 as stated: once the document has stopped changing, the watcher brings the
\* names of the worker map to the names of the document's supported entries, and
\* they stay there.
C26_WatcherCatchesUp == <>[](DOMAIN workers = SupportedNames)

\* C27: on a connection with maxRetries = 5 the backoff waits of a call are, in
\* order, 2, 4, 8, 10 and 10 seconds, all five of them when every attempt fails.
C27_BackoffSequence ==
    max_retries = 5 =>
        /\ Len(waits) <= 5
        /\ waits = SubSeq(<<2, 4, 8, 10, 10>>, 1, Len(waits))
        /\ run_pc = "exhausted" => Len(waits) = 5

\* five attempts have failed and the call has given up
C27_Witness == max_retries = 5 /\ run_pc = "exhausted" /\ waits = <<2, 4, 8, 10, 10>>

\* C28: run raises the connection-exhausted error after maxRetries failed
\* attempts and never after fewer; and once an attempt has succeeded the call
\* makes no other attempt.
C28_ExhaustedOnlyAfterMaxRetries ==
    /\ [](run_pc = "exhausted" => attempt = max_retries /\ Len(waits) = max_retries)
    /\ [][(run_pc = "attempt" /\ run_pc' = "returned") =>
             attempt' = attempt /\ waits' = waits]_vars
    /\ [][(run_pc = "returned" /\ run_pc' # "returned") => waits' = <<>>]_vars

\* a call on a connection with maxRetries = 3 has given up after three failures
\* and their three waits
C28_Witness == run_pc = "exhausted" /\ max_retries = 3 /\ waits = <<2, 4, 8>>

\* C29: a backoff wait that finds the cancelSignal fired ends the call with the
\* cancellation error, with no other attempt made; and the session of a call that
\* has been cancelled is closed and null.
C29_CancelledBackoffAborts ==
    /\ [][(run_pc = "backoff" /\ cancel /\ run_pc' # "backoff") =>
             run_pc' = "cancelled" /\ attempt' = attempt]_vars
    /\ [](run_pc = "cancelled" => underlying = "none")

\* the signal fired in the middle of the second wait of a call
C29_Witness ==
    /\ run_pc = "cancelled" /\ attempt = 2
    /\ waited > 0 /\ waited < Backoff(attempt)

\* the places in consumed of the events of node n, of any outcome or successful
ConsumedOf(n) == {i \in DOMAIN consumed : consumed[i].node = n}
SucceededOf(n) == {i \in ConsumedOf(n) : consumed[i].success}

Latest(S) == CHOOSE i \in S : \A j \in S : j <= i

\* C30 as stated: the snapshot of every node is the payload of the latest event
\* consumed for that node.
C30_SnapshotIsLatestEvent ==
    \A n \in Names :
        ConsumedOf(n) # {} => cache[n] = Snapshot(consumed[Latest(ConsumedOf(n))])

\* C30, amended: the snapshot of every node is the payload of the latest event of
\* a successful collection consumed for that node, and there is none before the
\* first such event; an event writes the snapshot of no other node, and the event
\* of a failed collection writes none.
C30_SnapshotIsLatestSuccess ==
    \A n \in Names :
        IF SucceededOf(n) = {}
        THEN cache[n] = <<>>
        ELSE cache[n] = Snapshot(consumed[Latest(SucceededOf(n))])

\* two successful events of one node and then a failed one have been consumed
C30_Witness ==
    /\ Len(consumed) = 3
    /\ consumed[1].node = consumed[2].node /\ consumed[2].node = consumed[3].node
    /\ consumed[1].success /\ consumed[2].success /\ ~consumed[3].success

\* C31: the node a run_node call was submitted with, and its connection, never
\* change afterwards; the entry of the map is the node its worker was submitted
\* with; and an entry that changes under a name that stays in the map changes to
\* a worker submitted in that step, with the old worker's stop_event set.
C31_NoInPlaceChange ==
    /\ [][\A h \in Submitted : launched'[h] = launched[h] /\ conn'[h] = conn[h]]_vars
    /\ [](\A n \in DOMAIN workers :
             /\ workers[n].stop_event \in Submitted
             /\ launched[workers[n].stop_event] = NodeOf(n, workers[n].interval))
    /\ [][\A n \in DOMAIN workers \cap DOMAIN workers' :
             workers'[n] # workers[n] =>
                 /\ workers'[n].stop_event \in NewHandles
                 /\ workers[n].stop_event \in is_set']_vars

\* a worker and its replacement under another interval are both in their loops,
\* the older one past a collection
C31_Witness ==
    \E n \in DOMAIN workers : \E h \in Submitted :
        /\ h # workers[n].stop_event /\ NameOf(h) = n
        /\ launched[h].interval # workers[n].interval
        /\ Executing(h) /\ Executing(workers[n].stop_event)
        /\ PastCollection(h) >= 1

\* C32: a worker whose stop_event is set begins no collection, so the one event
\* it can still put is that of the collection it was in when the stop_event was
\* set; having put it, the worker goes on to the check that ends it.
C32_AtMostOneEventAfterCancel ==
    /\ [][\A h \in Handles :
             (h \in is_set /\ pc'[h] = "collect") => pc[h] = "collect"]_vars
    /\ [][\A h \in Handles :
             (h \in is_set /\ pc[h] = "check") => pc'[h] \in {"check", "done"}]_vars

\* a signalled worker that has put events before is about to put one more
C32_Witness ==
    \E h \in Submitted : h \in is_set /\ pc[h] = "emit" /\ cycles[h] >= 1

\* --------------------------------------------------------------------------
\* the last entry of a name in a list
LastOf(new_nodes, n) ==
    new_nodes[CHOOSE i \in DOMAIN new_nodes :
                 /\ new_nodes[i].name = n
                 /\ \A j \in DOMAIN new_nodes : new_nodes[j].name = n => j <= i]

\* the names a list holds more than once
Repeated(new_nodes) ==
    {n \in Names : \E i, j \in DOMAIN new_nodes :
                      i # j /\ new_nodes[i].name = n /\ new_nodes[j].name = n}

\* C33: for a name the list given to reconcile holds more than once, one call
\* launches at most one worker, the worker map holds the name once, and the entry
\* launched and mapped is the last one of that name in the list.
C33_LastDuplicateWins ==
    /\ [](\A n \in Repeated(given) :
             /\ n \in DOMAIN workers
             /\ workers[n].interval = LastOf(given, n).interval
             /\ launched[workers[n].stop_event] = LastOf(given, n))
    /\ [][\A n \in Repeated(given') :
             /\ Cardinality({h \in NewHandles : launched'[h].name = n}) <= 1
             /\ \A h \in NewHandles :
                    launched'[h].name = n => launched'[h] = LastOf(given', n)]_vars

C33_Witness ==
    /\ Len(given) = 2
    /\ given[1].name = given[2].name
    /\ given[1].interval # given[2].interval
    /\ LET h == workers[given[2].name].stop_event IN
          /\ h = Len(launched)
          /\ launched[h] = given[2]
          /\ pc[h] = "emit"

\* --------------------------------------------------------------------------
\* C34: a reload of the watcher that raises leaves the worker map, the handles and
\* every worker loop as they were; the watcher goes on, a round being possible
\* whenever the modification time differs from the recorded one; and the failed
\* reload is not made again: the raising round records the time it saw, and until
\* the time changes no round touches the map.
C34_FailedReloadLeavesAllAlone ==
    /\ [][(reload_failed' /\ (~reload_failed \/ last_mtime' # last_mtime)) =>
             /\ UNCHANGED <<workers, launched, is_set, desired, queue>>
             /\ UNCHANGED <<workerVars, connVars>>
             /\ last_mtime' = mtime]_vars
    /\ [](mtime # last_mtime <=> ENABLED watch_config)
    /\ [][(reload_failed /\ mtime = last_mtime /\ mtime' = mtime) =>
             UNCHANGED <<workers, launched, is_set, last_mtime, reload_failed>>]_vars

\* a worker of an earlier reload runs on after a failed one, whose document the
\* map does not follow
C34_Witness ==
    /\ reload_failed
    /\ mtime = last_mtime
    /\ DOMAIN workers # SupportedNames
    /\ \E n \in DOMAIN workers :
          /\ workers[n].stop_event \notin is_set
          /\ pc[workers[n].stop_event] = "emit"

\* --------------------------------------------------------------------------
\* the calls made for one event
CallsOf(event) == {i \in DOMAIN delivered : delivered[i].event = event}

\* C35: the loop's one thread makes one handler call at a time; the queue hands the
\* events over in the order of their publication; the calls for an event go
\* through the handlers of its type in the order of subscription, none left out
\* whether a handler returned or raised; and the loop leaves only on a stop.
C35_InOrderToEveryHandler ==
    /\ [](bus_queue = SubSeq(published, Len(published) - Len(bus_queue) + 1,
                             Len(published)))
    /\ [](\A i \in DOMAIN delivered :
             /\ published[delivered[i].event[2]] = delivered[i].event
             /\ delivered[i].event[2] <= Len(published) - Len(bus_queue)
             /\ delivered[i].handler =
                    subscribers[delivered[i].event[1]][delivered[i].place]
             /\ i = 1 => delivered[i].place = 1
             /\ i > 1 =>
                    IF delivered[i - 1].event = delivered[i].event
                    THEN delivered[i].place = delivered[i - 1].place + 1
                    ELSE /\ delivered[i].place = 1
                         /\ delivered[i - 1].event[2] < delivered[i].event[2])
    /\ [][Len(delivered') > Len(delivered) =>
             /\ loop = "handlers" /\ loop' = "handler"
             /\ Len(delivered') = Len(delivered) + 1]_vars
    /\ [][(bus_queue # <<>> /\ bus_queue' = Tail(bus_queue)
             /\ Head(bus_queue)[1] # "None"
             /\ subscribers[Head(bus_queue)[1]] # <<>>) =>
             current' = <<Head(bus_queue), 1>>]_vars
    /\ [][(current # <<>> /\ current' = <<>>) =>
             \A k \in 1..Len(subscribers[current[1][1]]) :
                \E i \in CallsOf(current[1]) : delivered[i].place = k]_vars
    /\ [][(loop # "exit" /\ loop' = "exit") =>
             bus_state \in {"stopping", "stopped"}]_vars

\* a handler raised, the next handler of the event was called, and so was a
\* handler of a later event
C35_Witness ==
    \E i \in DOMAIN delivered : \E j \in DOMAIN delivered :
        /\ delivered[i].raised
        /\ i + 1 < j
        /\ delivered[i + 1].event = delivered[i].event
        /\ delivered[j].event[2] > delivered[i].event[2]

\* --------------------------------------------------------------------------
\* the places of (None, None) among the puts
Markers == {k \in DOMAIN published : published[k][1] = "None"}

\* C36: once stop() has returned the loop's thread comes to its end, wherever the
\* stop found it; the loop does not go back to the queue after it, so that what is
\* queued when the loop next tests running is never delivered; no handler is
\* called for an event published after stop() returned; and a loop that has
\* ended calls no handler and takes nothing from the queue.
C36_StopEndsLoop ==
    /\ (bus_state = "stopped") ~> (loop = "exit")
    /\ [][(bus_state = "stopped" /\ loop' = "get") => loop = "get"]_vars
    /\ [](\A i \in DOMAIN delivered : \A k \in Markers : delivered[i].event[2] < k)
    /\ [][loop = "exit" =>
             /\ loop' = "exit"
             /\ delivered' = delivered
             /\ Len(bus_queue') >= Len(bus_queue)]_vars

\* stop() ran while a handler was at work: the loop ended at its test of running,
\* with an event from before the stop left on the queue, and (None, None) too
C36_Witness ==
    /\ loop = "exit"
    /\ bus_state = "stopped"
    /\ delivered # <<>>
    /\ Len(bus_queue) = 2
    /\ bus_queue[1][1] # "None"
    /\ bus_queue[2][1] = "None"

\* --------------------------------------------------------------------------
\* a METRIC_EVENT is put on the bus in this step
MetricPublished ==
    /\ Len(bus_queue') > Len(bus_queue)
    /\ bus_queue'[Len(bus_queue')][1] = "METRIC_EVENT"

\* C37: a stop_system that the event loop's thread runs as the STOP_SYSTEM handler
\* comes to its end, and the loop with it; the executor's shutdown returns only
\* when the dispatch loop has left, the event loop leaves only when stop_system
\* has returned, and no METRIC_EVENT is published after that.
C37_StopOnBusThreadTerminates ==
    /\ (loop = "stop") ~> (loop = "exit" /\ stop_pc = "done" /\ dispatch = "exit")
    /\ [][(loop = "stop" /\ stop_pc # "done" /\ stop_pc' = "done") =>
             dispatch = "exit" /\ ~running /\ ~bus_running]_vars
    /\ [][(loop = "stop" /\ loop' # "stop") =>
             stop_pc = "done" /\ loop' = "exit"]_vars
    /\ [][stop_pc = "done" => ~MetricPublished /\ dispatch' = "exit"]_vars

\* stop_system, called by the event loop, is about to return to it: the dispatch
\* loop has left and the executor's shutdown has returned
C37_Witness ==
    /\ loop = "stop"
    /\ stop_pc = "done"
    /\ dispatch = "exit"
    /\ ~bus_running
    /\ \E i \in DOMAIN bus_queue : bus_queue[i][1] = "METRIC_EVENT"

====
